---- MODULE Spec2Model ----
(***************************************************************************)
(* The stock account ledger of rqalpha (model/account/stock_account.py):   *)
(* cash, frozen cash, the intra-day trade dedup set, the pending-dividend  *)
(* table and the position collection, driven by the order, trade and       *)
(* daily-boundary events of the backtesting engine.                        *)
(*                                                                         *)
(* Amounts are integers; the inputs of the two divisions of the source     *)
(* (dividend per share, split ratio) are drawn from pairs that divide      *)
(* exactly, so that Python 2 and Python 3 division agree on them.          *)
(***************************************************************************)
EXTENDS Integers, Sequences, FiniteSets, TLC

(* ------------------------------ bounds --------------------------------- *)

\* last trading date of a run
MaxDate == 3
\* inputs the engine feeds the ledger in a run: orders submitted, trades
\* executed, splits and dividends of the reference data, delistings
MaxInputs == 3
\* cash the ledger is constructed with
InitialCash == 100

(* ------------------------------ inputs --------------------------------- *)

Symbols == {"A", "B"}
BUY == "BUY"
SELL == "SELL"
\* the orders the strategy can submit: symbol, side, quantity, frozen price
OrderInputs ==
  {[order_book_id |-> "A", side |-> BUY, quantity |-> 2, frozen_price |-> 3],
   [order_book_id |-> "A", side |-> SELL, quantity |-> 2, frozen_price |-> 3],
   [order_book_id |-> "B", side |-> BUY, quantity |-> 2, frozen_price |-> 3]}
\* price and transaction cost of a trade, price a settled position is valued at
Prices == {2}
TransactionCosts == {1}
\* position sets the ledger can be constructed with (symbol -> position)
InitialPositions == {[s \in {"A"} |-> [quantity |-> 2]]}
\* (dividend_cash_before_tax, round_lot) of the reference data
DividendAmounts == {<<4, 2>>}
\* payable date of a dividend, as days after its book-closure date
PayableDelays == {1, 2}
\* (split_coefficient_from, split_coefficient_to) of the reference data
SplitCoefficients == {<<1, 2>>}
\* the three events register_event binds to _on_order_unsolicited_update
TerminalEvents == {"ORDER_CREATION_REJECT", "ORDER_UNSOLICITED_UPDATE", "ORDER_CANCELLATION_PASS"}

(* ------------------------- collaborators ------------------------------- *)

\* Order.unfilled_quantity
unfilled_quantity(o) == o.quantity - o.filled_quantity

\* Order._is_final: the order is filled, rejected or cancelled
is_final(o) == o.final

\* Positions.get_or_create: the entry of a symbol, created with quantity 0 if absent
get_or_create(positions, id) ==
  IF id \in DOMAIN positions THEN positions
  ELSE [s \in DOMAIN positions \cup {id} |->
          IF s = id THEN [quantity |-> 0] ELSE positions[s]]

\* StockPosition.apply_trade_: holdings grow on a buy and shrink on a sell
apply_trade_(position, trade) ==
  [position EXCEPT !.quantity =
     IF trade.side = BUY THEN @ + trade.last_quantity ELSE @ - trade.last_quantity]

\* StockPosition.split_: holdings are multiplied by the ratio
split_(position, ratio) == [position EXCEPT !.quantity = @ * ratio]

\* StockPosition.apply_settlement: rolls the day forward, holdings unchanged
apply_settlement(position) == position

\* StockPosition.market_value at the given price
market_value(position, price) == position.quantity * price

\* quantity held of a symbol, 0 when the collection has no entry for it
QuantityOf(positions, id) == IF id \in DOMAIN positions THEN positions[id].quantity ELSE 0

(* ------------------------------ helpers -------------------------------- *)

RECURSIVE SumOver(_, _)
\* sum of f[x] over the finite set S
SumOver(S, f) ==
  IF S = {} THEN 0
  ELSE LET x == CHOOSE y \in S : TRUE IN f[x] + SumOver(S \ {x}, f)

(* --------------------------- the ledger -------------------------------- *)

\* _apply_trade passing the trades of both sides to the position
apply_trade_on_both_sides(a, trade) ==
  IF trade.exec_id \in a.backward_trade_set THEN a
  ELSE
    LET id == trade.order_book_id
        created == get_or_create(a.positions, id)
        cash1 == a.total_cash - trade.transaction_cost
    IN IF trade.side = BUY
       THEN [a EXCEPT
               !.total_cash = cash1 - trade.last_quantity * trade.last_price,
               !.frozen_cash = @ - trade.frozen_price * trade.last_quantity,
               !.positions = [created EXCEPT ![id] = apply_trade_(@, trade)],
               !.backward_trade_set = @ \cup {trade.exec_id}]
       ELSE [a EXCEPT
               !.total_cash = cash1 + trade.last_price * trade.last_quantity,
               !.positions = [created EXCEPT ![id] = apply_trade_(@, trade)],
               !.backward_trade_set = @ \cup {trade.exec_id}]

\* _apply_trade charging no transaction cost
apply_trade_without_cost(a, trade) ==
  IF trade.exec_id \in a.backward_trade_set THEN a
  ELSE
    LET id == trade.order_book_id
        created == get_or_create(a.positions, id)
    IN IF trade.side = BUY
       THEN [a EXCEPT
               !.total_cash = @ - trade.last_quantity * trade.last_price,
               !.frozen_cash = @ - trade.frozen_price * trade.last_quantity,
               !.positions = [created EXCEPT ![id] = apply_trade_(@, trade)],
               !.backward_trade_set = @ \cup {trade.exec_id}]
       ELSE [a EXCEPT
               !.total_cash = @ + trade.last_price * trade.last_quantity,
               !.positions = created,
               !.backward_trade_set = @ \cup {trade.exec_id}]

\* _apply_trade releasing the reservation at the trade price, not the frozen price
apply_trade_released_at_last_price(a, trade) ==
  IF trade.exec_id \in a.backward_trade_set THEN a
  ELSE
    LET id == trade.order_book_id
        created == get_or_create(a.positions, id)
        cash1 == a.total_cash - trade.transaction_cost
    IN IF trade.side = BUY
       THEN [a EXCEPT
               !.total_cash = cash1 - trade.last_quantity * trade.last_price,
               !.frozen_cash = @ - trade.last_price * trade.last_quantity,
               !.positions = [created EXCEPT ![id] = apply_trade_(@, trade)],
               !.backward_trade_set = @ \cup {trade.exec_id}]
       ELSE [a EXCEPT
               !.total_cash = cash1 + trade.last_price * trade.last_quantity,
               !.positions = created,
               !.backward_trade_set = @ \cup {trade.exec_id}]

\* StockAccount._apply_trade
apply_trade(a, trade) ==
  IF trade.exec_id \in a.backward_trade_set THEN a
  ELSE
    LET id == trade.order_book_id
        created == get_or_create(a.positions, id)
        cash1 == a.total_cash - trade.transaction_cost
    IN IF trade.side = BUY
       THEN [a EXCEPT
               !.total_cash = cash1 - trade.last_quantity * trade.last_price,
               !.frozen_cash = @ - trade.frozen_price * trade.last_quantity,
               !.positions = [created EXCEPT ![id] = apply_trade_(@, trade)],
               !.backward_trade_set = @ \cup {trade.exec_id}]
       ELSE [a EXCEPT
               !.total_cash = cash1 + trade.last_price * trade.last_quantity,
               !.positions = created,
               !.backward_trade_set = @ \cup {trade.exec_id}]

RECURSIVE apply_trades(_, _)
\* the trade loop of StockAccount.fast_forward
apply_trades(a, trades) ==
  IF trades = <<>> THEN a
  ELSE apply_trades(apply_trade(a, Head(trades)), Tail(trades))

RECURSIVE frozen_of(_)
\* the order loop of StockAccount.fast_forward
frozen_of(orders) ==
  IF orders = <<>> THEN 0
  ELSE LET o == Head(orders)
       IN (IF is_final(o) THEN 0 ELSE o.frozen_price * unfilled_quantity(o))
          + frozen_of(Tail(orders))

\* fast_forward adding to _frozen_cash without setting it to 0 first
fast_forward_without_reset(a, orders, trades) ==
  [apply_trades(a, trades) EXCEPT !.frozen_cash = @ + frozen_of(orders)]

\* StockAccount.fast_forward
fast_forward(a, orders, trades) ==
  [apply_trades(a, trades) EXCEPT !.frozen_cash = frozen_of(orders)]

\* _on_order_pending_new freezing the price of one share, not of the order
on_order_pending_new_one_share(a, order) ==
  LET created == get_or_create(a.positions, order.order_book_id)
  IN [a EXCEPT
        !.positions = created,
        !.frozen_cash = IF order.side = BUY THEN @ + order.frozen_price ELSE @]

\* StockAccount._on_order_pending_new
on_order_pending_new(a, order) ==
  LET created == get_or_create(a.positions, order.order_book_id)
  IN [a EXCEPT
        !.positions = created,
        !.frozen_cash = IF order.side = BUY
                        THEN @ + order.frozen_price * order.quantity ELSE @]

\* _on_order_unsolicited_update moving the released reservation into total_cash
on_order_unsolicited_update_refunding(a, order) ==
  LET created == get_or_create(a.positions, order.order_book_id)
      unfilled_value == unfilled_quantity(order) * order.frozen_price
  IN [a EXCEPT
        !.positions = created,
        !.frozen_cash = IF order.side = BUY THEN @ - unfilled_value ELSE @,
        !.total_cash = IF order.side = BUY THEN @ + unfilled_value ELSE @]

\* _on_order_unsolicited_update releasing the whole order, not its unfilled part
on_order_unsolicited_update_whole_order(a, order) ==
  LET created == get_or_create(a.positions, order.order_book_id)
  IN [a EXCEPT
        !.positions = created,
        !.frozen_cash = IF order.side = BUY
                        THEN @ - order.quantity * order.frozen_price ELSE @]

\* StockAccount._on_order_unsolicited_update
on_order_unsolicited_update(a, order) ==
  LET created == get_or_create(a.positions, order.order_book_id)
  IN [a EXCEPT
        !.positions = created,
        !.frozen_cash = IF order.side = BUY
                        THEN @ - unfilled_quantity(order) * order.frozen_price ELSE @]

\* _handle_dividend_payable paying every pending dividend, whatever its date
handle_dividend_payable_on_any_date(a, trading_date) ==
  LET to_be_removed == DOMAIN a.dividend_receivable
      credit == [id \in to_be_removed |->
                   a.dividend_receivable[id].quantity
                   * a.dividend_receivable[id].dividend_per_share]
  IN [a EXCEPT
        !.total_cash = @ + SumOver(to_be_removed, credit),
        !.dividend_receivable =
           [id \in DOMAIN a.dividend_receivable \ to_be_removed |->
              a.dividend_receivable[id]]]

\* StockAccount._handle_dividend_payable
handle_dividend_payable(a, trading_date) ==
  LET to_be_removed == {id \in DOMAIN a.dividend_receivable :
                          a.dividend_receivable[id].payable_date = trading_date}
      credit == [id \in to_be_removed |->
                   a.dividend_receivable[id].quantity
                   * a.dividend_receivable[id].dividend_per_share]
  IN [a EXCEPT
        !.total_cash = @ + SumOver(to_be_removed, credit),
        !.dividend_receivable =
           [id \in DOMAIN a.dividend_receivable \ to_be_removed |->
              a.dividend_receivable[id]]]

\* StockAccount._handle_dividend_book_closure; dividend_by_book_date[id] is what
\* data_proxy.get_dividend_by_book_date(id, trading_date) returns: <<>> for None,
\* else a one-element sequence holding the dividend
handle_dividend_book_closure(a, dividend_by_book_date) ==
  LET closing == {id \in DOMAIN a.positions : dividend_by_book_date[id] # <<>>}
      entry(id) ==
        LET dividend == dividend_by_book_date[id][1]
        IN [quantity |-> a.positions[id].quantity,
            dividend_per_share |-> dividend.dividend_cash_before_tax \div dividend.round_lot,
            payable_date |-> dividend.payable_date]
  IN [a EXCEPT
        !.dividend_receivable =
           [id \in DOMAIN a.dividend_receivable \cup closing |->
              IF id \in closing THEN entry(id) ELSE a.dividend_receivable[id]]]

\* _handle_split with the ratio taken as from / to
handle_split_inverted(a, split_by_ex_date) ==
  [a EXCEPT
     !.positions =
        [id \in DOMAIN a.positions |->
           IF split_by_ex_date[id] = <<>> THEN a.positions[id]
           ELSE LET split == split_by_ex_date[id][1]
                IN split_(a.positions[id],
                          split.split_coefficient_from \div split.split_coefficient_to)]]

\* StockAccount._handle_split; split_by_ex_date[id] is what
\* data_proxy.get_split_by_ex_date(id, trading_date) returns (<<>> for None)
handle_split(a, split_by_ex_date) ==
  [a EXCEPT
     !.positions =
        [id \in DOMAIN a.positions |->
           IF split_by_ex_date[id] = <<>> THEN a.positions[id]
           ELSE LET split == split_by_ex_date[id][1]
                IN split_(a.positions[id],
                          split.split_coefficient_to \div split.split_coefficient_from)]]

\* StockAccount._before_trading
before_trading(a, trading_date, config, split_by_ex_date) ==
  LET paid == handle_dividend_payable(a, trading_date)
  IN IF config.handle_split THEN handle_split(paid, split_by_ex_date) ELSE paid

\* six.iteritems(table): the (key, value) pairs of a dict
iteritems(table) == {<<id, table[id]>> : id \in DOMAIN table}

\* the property StockAccount.dividend_receivable: the generator takes each
\* (key, value) pair d of the table and evaluates d['quantity'], a tuple indexed
\* by a string, which raises TypeError; over an empty table sum() returns 0
dividend_receivable_property(a) ==
  IF iteritems(a.dividend_receivable) = {}
  THEN [raised |-> FALSE, returned |-> 0]
  ELSE [raised |-> TRUE, returned |-> 0]

\* the position loop of _on_settlement without its quantity == 0 branch
settle_positions_keeping_empty(a, de_listed, config, price) ==
  LET closed == {id \in DOMAIN a.positions :
                   id \in de_listed /\ a.positions[id].quantity # 0}
      returned == [id \in closed |-> market_value(a.positions[id], price[id])]
  IN [a EXCEPT
        !.total_cash = IF config.cash_return_by_stock_delisted
                       THEN @ + SumOver(closed, returned) ELSE @,
        !.positions = [id \in DOMAIN a.positions \ closed |->
                         apply_settlement(a.positions[id])]]

\* the position loop of _on_settlement calling apply_settlement() on every
\* position before it looks at delisting and quantity
settlement_loop_settling_first(a, de_listed, config, price) ==
  LET closed == {id \in DOMAIN a.positions :
                   id \in de_listed /\ a.positions[id].quantity # 0}
      empty == {id \in DOMAIN a.positions \ closed : a.positions[id].quantity = 0}
      returned == [id \in closed |-> market_value(a.positions[id], price[id])]
  IN [ledger |->
        [a EXCEPT
           !.total_cash = IF config.cash_return_by_stock_delisted
                          THEN @ + SumOver(closed, returned) ELSE @,
           !.positions = [id \in DOMAIN a.positions \ (closed \cup empty) |->
                            apply_settlement(a.positions[id])]],
      settled |-> DOMAIN a.positions]

\* the position loop of StockAccount._on_settlement; de_listed is the set of
\* symbols whose position answers is_de_listed(), price[id] the price its
\* market value is taken at. The loop leaves a ledger, and it has called
\* apply_settlement() on the positions of the symbols in settled: those that
\* reach its else branch
settlement_loop(a, de_listed, config, price) ==
  LET closed == {id \in DOMAIN a.positions :
                   id \in de_listed /\ a.positions[id].quantity # 0}
      empty == {id \in DOMAIN a.positions \ closed : a.positions[id].quantity = 0}
      rest == DOMAIN a.positions \ (closed \cup empty)
      returned == [id \in closed |-> market_value(a.positions[id], price[id])]
  IN [ledger |->
        [a EXCEPT
           !.total_cash = IF config.cash_return_by_stock_delisted
                          THEN @ + SumOver(closed, returned) ELSE @,
           !.positions = [id \in rest |-> apply_settlement(a.positions[id])]],
      settled |-> rest]

\* the ledger the position loop of StockAccount._on_settlement leaves
settle_positions(a, de_listed, config, price) ==
  settlement_loop(a, de_listed, config, price).ledger

\* _on_settlement closing the dividend books before it prunes the positions
on_settlement_closing_books_first(a, de_listed, config, price, dividend_by_book_date) ==
  LET booked == handle_dividend_book_closure(a, dividend_by_book_date)
      settled == settle_positions(booked, de_listed, config, price)
  IN [settled EXCEPT !.backward_trade_set = {}]

\* _on_settlement without the clearing of the dedup set
on_settlement_keeping_trade_set(a, de_listed, config, price, dividend_by_book_date) ==
  handle_dividend_book_closure(settle_positions(a, de_listed, config, price),
                               dividend_by_book_date)

\* StockAccount._on_settlement
on_settlement(a, de_listed, config, price, dividend_by_book_date) ==
  LET settled == settle_positions(a, de_listed, config, price)
      cleared == [settled EXCEPT !.backward_trade_set = {}]
  IN handle_dividend_book_closure(cleared, dividend_by_book_date)

(* ------------------------------- state --------------------------------- *)

VARIABLES
  total_cash,           \* StockAccount._total_cash
  frozen_cash,          \* StockAccount._frozen_cash
  backward_trade_set,   \* StockAccount._backward_trade_set
  positions,            \* StockAccount._positions: symbol -> position
  dividend_receivable,  \* StockAccount._dividend_receivable: symbol -> record
  orders,               \* the Order objects of this date, in submission order
  trades,               \* the Trade objects of this date, in execution order
  date,                 \* Environment.trading_dt.date()
  phase,                \* position of the engine within the trading date
  inputs,               \* number of inputs fed so far
  ev,                   \* the event delivered last, with the configuration and
                        \* reference data its handler read
  pre,                  \* the ledger as it was before that event
  declared,             \* the dividends book-closed and not yet past their payable date
  opening,              \* cash and positions as _before_trading left them on
                        \* this date, until trading ends
  flat,                 \* once trading has ended: the symbols whose position the
                        \* trades of this date reduced to zero
  settled_ids           \* exec ids of the trades applied on earlier dates

ledger_vars == <<total_cash, frozen_cash, backward_trade_set, positions, dividend_receivable>>
engine_vars == <<orders, trades, date, phase, inputs>>
history_vars == <<ev, pre, declared, opening, flat, settled_ids>>
vars == <<ledger_vars, engine_vars, history_vars>>

\* the ledger's fields as one record
Ledger ==
  [total_cash |-> total_cash, frozen_cash |-> frozen_cash,
   backward_trade_set |-> backward_trade_set, positions |-> positions,
   dividend_receivable |-> dividend_receivable]

\* Environment.config as far as the ledger reads it, with both flags off
NoConfig == [handle_split |-> FALSE, cash_return_by_stock_delisted |-> FALSE]

\* no answer of the data proxy: the handler asked nothing
Unasked == [id \in {} |-> <<>>]

\* the event of the given kind about order or trade id, whose handler read
\* config and was answered is_de_listed() by the positions of de_listed; the
\* handlers that ask for splits, dividends or prices record the answers, a
\* settlement the symbols whose position it called apply_settlement() on, and
\* a read of a property what it returned or that it raised
Event(kind, id, config, de_listed) ==
  [kind |-> kind, id |-> id, config |-> config, de_listed |-> de_listed,
   split_by_ex_date |-> Unasked, dividend_by_book_date |-> Unasked, price |-> Unasked,
   settled |-> {}, raised |-> FALSE, returned |-> 0]

\* the ledger becomes a, after the event e
Becomes(a, e) ==
  /\ total_cash' = a.total_cash
  /\ frozen_cash' = a.frozen_cash
  /\ backward_trade_set' = a.backward_trade_set
  /\ positions' = a.positions
  /\ dividend_receivable' = a.dividend_receivable
  /\ ev' = e
  /\ pre' = Ledger

\* what the data proxy can answer for a dividend with book-closure date d
DividendAnswers(d) ==
  {<<>>} \cup
  {<<[dividend_cash_before_tax |-> am[1], round_lot |-> am[2], payable_date |-> d + k]>> :
     am \in DividendAmounts, k \in PayableDelays}

\* what the data proxy can answer for a split
SplitAnswers ==
  {<<>>} \cup
  {<<[split_coefficient_from |-> c[1], split_coefficient_to |-> c[2]]>> :
     c \in SplitCoefficients}

\* cash and positions of the ledger a
Opening(a) == [total_cash |-> a.total_cash, positions |-> a.positions]

\* the quantity the trades of this date on symbol id and side bought or sold
Traded(id, side) ==
  LET on == {e \in 1..Len(trades) : trades[e].order_book_id = id /\ trades[e].side = side}
  IN SumOver(on, [e \in on |-> trades[e].last_quantity])

\* the symbols that were held or bought on this date and whose purchases and
\* sales of this date leave nothing of
Flat ==
  {id \in Symbols :
     /\ Traded(id, SELL) > 0
     /\ QuantityOf(opening.positions, id) + Traded(id, BUY) - Traded(id, SELL) = 0}

\* StockAccount.__init__
Init ==
  /\ total_cash = InitialCash
  /\ frozen_cash = 0
  /\ backward_trade_set = {}
  /\ positions \in InitialPositions
  /\ dividend_receivable = [s \in {} |-> 0]
  /\ orders = <<>>
  /\ trades = <<>>
  /\ date = 1
  /\ phase = "PRE_TRADING"
  /\ inputs = 0
  /\ ev = Event("init", 0, NoConfig, {})
  /\ pre = Ledger
  /\ declared = {}
  /\ opening = Opening(Ledger)
  /\ flat = {}
  /\ settled_ids = {}

(* ------------------------------ events --------------------------------- *)

\* EVENT.PRE_BEFORE_TRADING -> _before_trading. The handler reads handle_split
\* and, with it set, asks the data proxy for the split of every position held
BeforeTrading ==
  /\ phase = "PRE_TRADING"
  /\ \E handle \in BOOLEAN :
       \E split_by_ex_date \in [IF handle THEN DOMAIN positions ELSE {} -> SplitAnswers] :
         LET config == [NoConfig EXCEPT !.handle_split = handle]
         IN /\ inputs' = inputs + Cardinality({id \in DOMAIN split_by_ex_date :
                                                  split_by_ex_date[id] # <<>>})
            /\ inputs' <= MaxInputs
            /\ Becomes(before_trading(Ledger, date, config, split_by_ex_date),
                       [Event("before_trading", 0, config, {})
                          EXCEPT !.split_by_ex_date = split_by_ex_date])
            /\ opening' = Opening(before_trading(Ledger, date, config, split_by_ex_date))
  /\ phase' = "TRADING"
  /\ UNCHANGED <<orders, trades, date, declared, settled_ids, flat>>

\* the broker submits an order: EVENT.ORDER_PENDING_NEW -> _on_order_pending_new
OrderPendingNew ==
  /\ phase = "TRADING"
  /\ inputs < MaxInputs
  /\ inputs' = inputs + 1
  /\ \E input \in OrderInputs :
       LET order == [order_book_id |-> input.order_book_id, side |-> input.side,
                     quantity |-> input.quantity, frozen_price |-> input.frozen_price,
                     filled_quantity |-> 0, final |-> FALSE]
       IN /\ orders' = Append(orders, order)
          /\ Becomes(on_order_pending_new(Ledger, order),
                     Event("pending_new", Len(orders) + 1, NoConfig, {}))
  /\ UNCHANGED <<trades, date, phase, declared, opening, settled_ids, flat>>

\* the broker rejects or cancels an open order, marks it final and publishes
\* one of the three events bound to _on_order_unsolicited_update
OrderUnsolicitedUpdate ==
  /\ phase = "TRADING"
  /\ \E n \in 1..Len(orders), kind \in TerminalEvents :
       LET order == [orders[n] EXCEPT !.final = TRUE]
       IN /\ ~is_final(orders[n])
          /\ kind = "ORDER_CREATION_REJECT" => orders[n].filled_quantity = 0
          /\ orders' = [orders EXCEPT ![n] = order]
          /\ Becomes(on_order_unsolicited_update(Ledger, order),
                     Event(kind, n, NoConfig, {}))
  /\ UNCHANGED <<trades, date, phase, declared, inputs, opening, settled_ids, flat>>

\* the orders after the broker matched quantity of order n (Order.fill)
Filled(n, quantity) ==
  LET filled == orders[n].filled_quantity + quantity
  IN [orders EXCEPT
        ![n].filled_quantity = filled,
        ![n].final = (filled = orders[n].quantity)]

\* the Trade the broker creates for quantity of order n
NewTrade(n, quantity, price, cost) ==
  [exec_id |-> Len(trades) + 1, order |-> n,
   order_book_id |-> orders[n].order_book_id, side |-> orders[n].side,
   frozen_price |-> orders[n].frozen_price, last_quantity |-> quantity,
   last_price |-> price, transaction_cost |-> cost]

\* the broker matches part of an open order (Order.fill, a new Trade) and
\* publishes EVENT.TRADE -> _on_trade
Trade ==
  /\ phase = "TRADING"
  /\ inputs < MaxInputs
  /\ inputs' = inputs + 1
  /\ \E n \in 1..Len(orders), price \in Prices, cost \in TransactionCosts :
       /\ ~is_final(orders[n])
       /\ \E quantity \in 1..unfilled_quantity(orders[n]) :
            LET trade == NewTrade(n, quantity, price, cost)
            IN /\ trades' = Append(trades, trade)
               /\ orders' = Filled(n, quantity)
               /\ Becomes(apply_trade(Ledger, trade),
                          Event("trade", trade.exec_id, NoConfig, {}))
  /\ UNCHANGED <<date, phase, declared, opening, settled_ids, flat>>

\* EVENT.TRADE -> _on_trade for a trade of this date that was delivered before
TradeAgain ==
  /\ phase = "TRADING"
  /\ \E e \in 1..Len(trades) :
       Becomes(apply_trade(Ledger, trades[e]), Event("trade_again", e, NoConfig, {}))
  /\ UNCHANGED <<orders, trades, date, phase, declared, inputs, opening, settled_ids, flat>>

\* StockAccount.fast_forward with the orders and the trades of this date
FastForward ==
  /\ phase = "TRADING"
  /\ Becomes(fast_forward(Ledger, orders, trades),
             Event("fast_forward", 0, NoConfig, {}))
  /\ UNCHANGED <<orders, trades, date, phase, declared, inputs, opening, settled_ids, flat>>

\* the broker matches part of an open order and the trade reaches the ledger
\* through StockAccount.fast_forward first
TradeByFastForward ==
  /\ phase = "TRADING"
  /\ inputs < MaxInputs
  /\ inputs' = inputs + 1
  /\ \E n \in 1..Len(orders), price \in Prices, cost \in TransactionCosts :
       /\ ~is_final(orders[n])
       /\ \E quantity \in 1..unfilled_quantity(orders[n]) :
            LET trade == NewTrade(n, quantity, price, cost)
            IN /\ trades' = Append(trades, trade)
               /\ orders' = Filled(n, quantity)
               /\ Becomes(fast_forward(Ledger, Filled(n, quantity), Append(trades, trade)),
                          Event("trade_by_fast_forward", trade.exec_id, NoConfig, {}))
  /\ UNCHANGED <<date, phase, declared, opening, settled_ids, flat>>

\* the property dividend_receivable of the account is read for the report of
\* the date, once trading has closed: the table then is as _before_trading
\* left it, or as _on_settlement did
DividendReceivable ==
  /\ phase \in {"AFTER_TRADING", "SETTLED"}
  /\ LET read == dividend_receivable_property(Ledger)
     IN Becomes(Ledger, [Event("dividend_receivable", 0, NoConfig, {})
                           EXCEPT !.raised = read.raised, !.returned = read.returned])
  /\ UNCHANGED <<engine_vars, declared, opening, flat, settled_ids>>

\* EVENT.PRE_AFTER_TRADING -> _after_trading: every position's after_trading_,
\* which changes nothing the ledger reads
AfterTrading ==
  /\ phase = "TRADING"
  /\ Becomes(Ledger, Event("after_trading", 0, NoConfig, {}))
  /\ phase' = "AFTER_TRADING"
  /\ flat' = Flat
  /\ opening' = Opening(Ledger)
  /\ UNCHANGED <<orders, trades, date, declared, inputs, settled_ids>>

\* the dividends the book closure of this date enters for the ledger a
Closed(a, dividend_by_book_date) ==
  {[order_book_id |-> id, ex_date |-> date,
    payable_date |-> dividend_by_book_date[id][1].payable_date,
    quantity |-> a.positions[id].quantity,
    dividend_cash_before_tax |-> dividend_by_book_date[id][1].dividend_cash_before_tax,
    round_lot |-> dividend_by_book_date[id][1].round_lot] :
     id \in {s \in DOMAIN a.positions : dividend_by_book_date[s] # <<>>}}

\* EVENT.SETTLEMENT -> _on_settlement. The handler asks every position held
\* whether it is delisted and reads cash_return_by_stock_delisted when it
\* closes one; the data proxy has an answer on the dividend of every symbol
\* held when the settlement starts
Settlement ==
  /\ phase = "AFTER_TRADING"
  /\ \E de_listed \in SUBSET DOMAIN positions, price \in [DOMAIN positions -> Prices] :
       LET closed == {id \in de_listed : positions[id].quantity # 0}
       IN \E cash_return \in IF closed = {} THEN {FALSE} ELSE BOOLEAN :
            LET config == [NoConfig EXCEPT !.cash_return_by_stock_delisted = cash_return]
            IN \E dividend_by_book_date \in [DOMAIN positions -> DividendAnswers(date)] :
                 LET a == on_settlement(Ledger, de_listed, config, price, dividend_by_book_date)
                 IN /\ inputs' = inputs + Cardinality(de_listed)
                                  + Cardinality({id \in DOMAIN positions :
                                                   dividend_by_book_date[id] # <<>>})
                    /\ inputs' <= MaxInputs
                    /\ Becomes(a, [Event("settlement", 0, config, de_listed)
                                      EXCEPT !.dividend_by_book_date = dividend_by_book_date,
                                             !.price = price,
                                             !.settled =
                                                settlement_loop(Ledger, de_listed,
                                                                config, price).settled])
                    /\ declared' = declared \cup Closed(a, dividend_by_book_date)
                    /\ settled_ids' = settled_ids \cup backward_trade_set
  /\ phase' = "SETTLED"
  /\ UNCHANGED <<orders, trades, date, opening, flat>>

\* the clock moves to the next trading date, which need not be the next
\* calendar day: the broker starts the new date with the orders still open
\* and no trades
NextTradingDate ==
  /\ phase = "SETTLED"
  /\ \E d \in (date + 1)..MaxDate :
       /\ d <= date + 2
       /\ date' = d
       /\ declared' = {dividend \in declared : dividend.payable_date >= d}
  /\ ev' = Event("next_date", 0, NoConfig, {})
  /\ pre' = Ledger
  /\ orders' = SelectSeq(orders, LAMBDA o : ~is_final(o))
  /\ trades' = <<>>
  /\ phase' = "PRE_TRADING"
  /\ flat' = {}
  /\ UNCHANGED <<ledger_vars, inputs, opening, settled_ids>>

Next ==
  \/ BeforeTrading
  \/ OrderPendingNew
  \/ OrderUnsolicitedUpdate
  \/ Trade
  \/ TradeAgain
  \/ FastForward
  \/ TradeByFastForward
  \/ DividendReceivable
  \/ AfterTrading
  \/ Settlement
  \/ NextTradingDate

Spec == Init /\ [][Next]_vars

\* the engine without StockAccount.fast_forward: every event reaches the
\* ledger through the handlers register_event binds
NextLive ==
  \/ BeforeTrading
  \/ OrderPendingNew
  \/ OrderUnsolicitedUpdate
  \/ Trade
  \/ TradeAgain
  \/ DividendReceivable
  \/ AfterTrading
  \/ Settlement
  \/ NextTradingDate

SpecLive == Init /\ [][NextLive]_vars

(* ----------------------------- properties ------------------------------- *)

\* the orders that are open: pending-new delivered, not final
OpenOrders == {n \in 1..Len(orders) : ~is_final(orders[n])}

\* unfilled quantity x frozen price, summed over the open buy orders
OpenBuyReservation ==
  LET buying == {n \in OpenOrders : orders[n].side = BUY}
  IN SumOver(buying, [n \in buying |-> unfilled_quantity(orders[n]) * orders[n].frozen_price])

\* C1: a trade delivered again on the date it was applied, by the trade
\* handler or by fast_forward, leaves total_cash, frozen_cash, the positions
\* and the dedup set (the whole ledger) as they were
C1_TradeIdempotent ==
  /\ (ev.kind = "trade_again" /\ ev.id \in pre.backward_trade_set) => Ledger = pre
  /\ (/\ ev.kind = "fast_forward"
      /\ trades # <<>>
      /\ \A e \in 1..Len(trades) : trades[e].exec_id \in pre.backward_trade_set)
     => Ledger = pre

\* C2: frozen_cash is never negative
C2_FrozenCashNonNegative == frozen_cash >= 0

\* a partly filled buy order was cancelled or rejected and released the last
\* of the frozen cash
C2_Witness ==
  /\ ev.kind \in TerminalEvents
  /\ orders[ev.id].side = BUY
  /\ orders[ev.id].filled_quantity > 0
  /\ pre.frozen_cash > 0
  /\ frozen_cash = 0

\* C3: between the live handlers, frozen_cash is the sum over the open buy
\* orders of unfilled quantity x frozen price
C3_FrozenCashIsOpenBuyReservation == frozen_cash = OpenBuyReservation

\* a trade was applied while a buy order and a sell order were open
C3_Witness ==
  /\ ev.kind = "trade"
  /\ frozen_cash > 0
  /\ \E n, m \in OpenOrders : orders[n].side = BUY /\ orders[m].side = SELL

\* the ledger fast_forward makes of the ledger this date opened with, given
\* the orders and the trades of this date
Replayed ==
  fast_forward([Ledger EXCEPT !.total_cash = opening.total_cash,
                              !.positions = opening.positions,
                              !.backward_trade_set = {}],
               orders, trades)

\* C4: replaying the orders and trades of the date through fast_forward gives
\* the frozen_cash, total_cash and position quantities the live handlers gave
C4_FastForwardEquivalence ==
  phase = "TRADING" =>
    /\ Replayed.frozen_cash = frozen_cash
    /\ Replayed.total_cash = total_cash
    /\ \A id \in Symbols : QuantityOf(Replayed.positions, id) = QuantityOf(positions, id)

\* C5: a buy order without trades whose pending-new event is followed by the
\* event that makes it final leaves frozen_cash and total_cash as they were
\* before the pending-new event
C5_ReservationConserved ==
  [][(/\ ev.kind = "pending_new"
      /\ ev'.kind \in TerminalEvents
      /\ ev'.id = ev.id
      /\ orders[ev.id].side = BUY)
     => (frozen_cash' = pre.frozen_cash /\ total_cash' = pre.total_cash)]_vars

\* a buy order without trades was rejected at creation and its reservation
\* released
C5_Witness ==
  /\ ev.kind = "ORDER_CREATION_REJECT"
  /\ orders[ev.id].side = BUY
  /\ orders[ev.id].filled_quantity = 0
  /\ frozen_cash = pre.frozen_cash - orders[ev.id].quantity * orders[ev.id].frozen_price
  /\ total_cash = pre.total_cash

\* C6: the dedup set is empty right after every settlement, and a trade whose
\* exec id was applied on an earlier date is applied: cash, frozen cash and
\* position move by the trade and the id is recorded again
C6_DedupWindow ==
  /\ ev.kind = "settlement" => backward_trade_set = {}
  /\ (ev.kind = "trade" /\ ev.id \in settled_ids) =>
       LET trade == trades[ev.id]
           value == trade.last_quantity * trade.last_price
           id == trade.order_book_id
       IN /\ total_cash = pre.total_cash - trade.transaction_cost
                          + (IF trade.side = BUY THEN 0 - value ELSE value)
          /\ frozen_cash = pre.frozen_cash
                           - (IF trade.side = BUY
                              THEN trade.frozen_price * trade.last_quantity ELSE 0)
          /\ QuantityOf(positions, id) = QuantityOf(pre.positions, id)
                           + (IF trade.side = BUY THEN trade.last_quantity ELSE 0)
          /\ ev.id \notin pre.backward_trade_set
          /\ backward_trade_set = pre.backward_trade_set \cup {ev.id}

\* a buy trade reused the exec id of a trade of an earlier date and was applied
C6_Witness ==
  /\ ev.kind = "trade"
  /\ ev.id \in settled_ids
  /\ date > 1
  /\ trades[ev.id].side = BUY
  /\ total_cash < pre.total_cash
  /\ ev.id \in backward_trade_set

\* the dividends declared that fall due on this date, and what each pays
DueToday == {dividend \in declared : dividend.payable_date = date}

\* quantity x (cash dividend before tax / round lot), summed over the dividends
\* due on this date
DuePayment ==
  SumOver(DueToday,
          [dividend \in DueToday |->
             dividend.quantity * (dividend.dividend_cash_before_tax \div dividend.round_lot)])

\* C7: _before_trading of date P credits total_cash with exactly
\* Q x (cash_dividend_before_tax / round_lot) for every dividend book-closed
\* with quantity Q and payable date P, and leaves no record payable on P
C7_DividendRoundTrip ==
  ev.kind = "before_trading" =>
    /\ total_cash = pre.total_cash + DuePayment
    /\ \A id \in DOMAIN dividend_receivable : dividend_receivable[id].payable_date # date

\* C8: once _before_trading of date T has run, no pending dividend has a
\* payable date on or before T
C8_NoOverduePendingDividend ==
  phase \in {"TRADING", "AFTER_TRADING", "SETTLED"} =>
    \A id \in DOMAIN dividend_receivable : dividend_receivable[id].payable_date > date

\* C9: right after settlement no position has quantity 0 and none is delisted
C9_NoEmptyOrDelistedPosition ==
  ev.kind = "settlement" =>
    \A id \in DOMAIN positions : positions[id].quantity # 0 /\ id \notin ev.de_listed

\* a settlement met a position created empty by an order and a delisted
\* position with a quantity
C9_Witness ==
  /\ ev.kind = "settlement"
  /\ \E id \in DOMAIN pre.positions : pre.positions[id].quantity = 0
  /\ \E id \in ev.de_listed : pre.positions[id].quantity # 0

\* C10: a position the trades of the date reduced to zero is gone right after
\* the settlement of that date
C10_FlatPositionPruned ==
  ev.kind = "settlement" => \A id \in flat : id \notin DOMAIN positions

\* what the trades of this date cost: quantity x price + transaction cost each
Paid ==
  LET all == 1..Len(trades)
  IN SumOver(all, [e \in all |-> trades[e].last_quantity * trades[e].last_price
                                  + trades[e].transaction_cost])

\* C11: a buy order of quantity q filled by trades whose quantities sum to q
\* leaves frozen_cash at its value before the order, total_cash lower by the
\* sum over the trades of quantity x price + transaction cost, and the position
\* higher by q: for one trade that follows the pending-new event at once, from
\* any ledger, and for any trades of the first order of the first date
C11_FullFillOfBuyOrder ==
  [][/\ (/\ ev.kind = "pending_new"
         /\ orders[ev.id].side = BUY
         /\ ev'.kind = "trade"
         /\ trades'[ev'.id].order = ev.id
         /\ trades'[ev'.id].last_quantity = orders[ev.id].quantity)
        => LET trade == trades'[ev'.id]
               id == trade.order_book_id
           IN /\ frozen_cash' = pre.frozen_cash
              /\ total_cash' = pre.total_cash
                               - (trade.last_quantity * trade.last_price
                                  + trade.transaction_cost)
              /\ QuantityOf(positions', id) = QuantityOf(pre.positions, id)
                                              + orders[ev.id].quantity
     /\ (/\ phase' = "TRADING"
         /\ date' = 1
         /\ Len(orders') = 1
         /\ orders'[1].side = BUY
         /\ orders'[1].filled_quantity = orders'[1].quantity)
        => /\ frozen_cash' = 0
           /\ total_cash' = opening'.total_cash - Paid'
           /\ QuantityOf(positions', orders'[1].order_book_id)
                = QuantityOf(opening'.positions, orders'[1].order_book_id)
                  + orders'[1].quantity]_vars

\* the second of two trades completed the only order, a buy, and released the
\* rest of its reservation
C11_Witness ==
  /\ ev.kind = "trade"
  /\ date = 1
  /\ Len(orders) = 1
  /\ orders[1].side = BUY
  /\ orders[1].filled_quantity = orders[1].quantity
  /\ Len(trades) = 2
  /\ pre.frozen_cash > 0
  /\ frozen_cash = 0

\* the symbols the data proxy answered a split for at the last event
SplitToday == {id \in DOMAIN ev.split_by_ex_date : ev.split_by_ex_date[id] # <<>>}

\* C12: _before_trading with handle_split set multiplies the quantity of every
\* position whose symbol has a split on that date by split_coefficient_to /
\* split_coefficient_from, once, and leaves the other positions as they were;
\* with handle_split unset no quantity changes
C12_SplitAdjustment ==
  ev.kind = "before_trading" =>
    /\ DOMAIN positions = DOMAIN pre.positions
    /\ \A id \in DOMAIN positions :
         positions[id].quantity =
           IF ev.config.handle_split /\ id \in SplitToday
           THEN LET split == ev.split_by_ex_date[id][1]
                IN (pre.positions[id].quantity * split.split_coefficient_to)
                     \div split.split_coefficient_from
           ELSE pre.positions[id].quantity

\* with handle_split set, one position was doubled by a 1:2 split while
\* another, without a split, kept its quantity
C12_Witness ==
  /\ ev.kind = "before_trading"
  /\ ev.config.handle_split
  /\ \E id \in SplitToday :
       /\ pre.positions[id].quantity > 0
       /\ positions[id].quantity = 2 * pre.positions[id].quantity
  /\ \E id \in DOMAIN positions \ SplitToday :
       positions[id].quantity = pre.positions[id].quantity

\* quantity x dividend_per_share, summed over the pending dividends
PendingDividends ==
  SumOver(DOMAIN dividend_receivable,
          [id \in DOMAIN dividend_receivable |->
             dividend_receivable[id].quantity * dividend_receivable[id].dividend_per_share])

\* C13: a read of the property dividend_receivable returns the sum over the
\* pending dividends of quantity x dividend_per_share and leaves the ledger
\* as it was, whatever the table holds
C13_DividendReceivableRead ==
  ev.kind = "dividend_receivable" =>
    /\ ~ev.raised
    /\ ev.returned = PendingDividends
    /\ Ledger = pre

\* the positions the last settlement found delisted with a quantity
ClosedBySystem == {id \in ev.de_listed : pre.positions[id].quantity # 0}

\* C14: a position delisted with a quantity at settlement is removed whatever
\* the configuration says, total_cash rises by the market values of these
\* positions if cash_return_by_stock_delisted is set and is unchanged if not,
\* and apply_settlement() is called on none of them
C14_DelistingAtSettlement ==
  ev.kind = "settlement" =>
    /\ \A id \in ClosedBySystem : id \notin DOMAIN positions
    /\ \A id \in ClosedBySystem : id \notin ev.settled
    /\ total_cash = pre.total_cash
                    + (IF ev.config.cash_return_by_stock_delisted
                       THEN SumOver(ClosedBySystem,
                                    [id \in ClosedBySystem |->
                                       pre.positions[id].quantity * ev.price[id]])
                       ELSE 0)

\* a settlement closed a delisted position and credited its market value,
\* and called apply_settlement() on another position, which it kept
C14_Witness ==
  /\ ev.kind = "settlement"
  /\ ClosedBySystem # {}
  /\ ev.config.cash_return_by_stock_delisted
  /\ total_cash > pre.total_cash
  /\ DOMAIN positions = DOMAIN pre.positions \ ClosedBySystem
  /\ ev.settled # {}
  /\ ev.settled = DOMAIN positions

\* C15: a sell trade whose exec id is not in the dedup set raises total_cash by
\* quantity x price - transaction cost, enters its id in the dedup set, and
\* leaves frozen_cash, the pending dividends and the quantity of the position
\* of its symbol as they were
C15_SellTradeEffect ==
  (/\ ev.kind = "trade"
   /\ trades[ev.id].side = SELL
   /\ ev.id \notin pre.backward_trade_set)
  => LET trade == trades[ev.id]
     IN /\ total_cash = pre.total_cash + trade.last_quantity * trade.last_price
                        - trade.transaction_cost
        /\ backward_trade_set = pre.backward_trade_set \cup {ev.id}
        /\ frozen_cash = pre.frozen_cash
        /\ dividend_receivable = pre.dividend_receivable
        /\ \A id \in Symbols : QuantityOf(positions, id) = QuantityOf(pre.positions, id)

\* a sell trade on a position held was applied: the proceeds less the cost are
\* in total_cash and the trade is in the dedup set
C15_Witness ==
  /\ ev.kind = "trade"
  /\ trades[ev.id].side = SELL
  /\ ev.id \in backward_trade_set \ pre.backward_trade_set
  /\ total_cash # pre.total_cash
  /\ QuantityOf(pre.positions, trades[ev.id].order_book_id) > 0

\* the symbols the data proxy answered a dividend for at the last settlement
DividendToday ==
  {id \in DOMAIN ev.dividend_by_book_date : ev.dividend_by_book_date[id] # <<>>}

\* C16: the settlement of date D prunes the positions before it closes the
\* dividend books: it enters or overwrites a pending dividend for exactly the
\* symbols whose position survives and that have a dividend with ex-date D,
\* with the quantity the position then has, and a position removed at that
\* settlement gets no pending dividend from it
C16_PruningBeforeBookClosure ==
  ev.kind = "settlement" =>
    \A id \in Symbols :
      IF id \in DOMAIN positions /\ id \in DividendToday
      THEN /\ id \in DOMAIN dividend_receivable
           /\ LET dividend == ev.dividend_by_book_date[id][1]
              IN dividend_receivable[id] =
                   [quantity |-> positions[id].quantity,
                    dividend_per_share |->
                      dividend.dividend_cash_before_tax \div dividend.round_lot,
                    payable_date |-> dividend.payable_date]
      ELSE /\ id \in DOMAIN dividend_receivable <=> id \in DOMAIN pre.dividend_receivable
           /\ id \in DOMAIN dividend_receivable =>
                dividend_receivable[id] = pre.dividend_receivable[id]

\* at one settlement a position with a dividend on that date was removed and
\* got no pending dividend, while a surviving position got one
C16_Witness ==
  /\ ev.kind = "settlement"
  /\ \E id \in DividendToday \ DOMAIN positions : id \notin DOMAIN dividend_receivable
  /\ \E id \in DividendToday \cap DOMAIN positions :
       dividend_receivable[id].quantity = positions[id].quantity

\* C17: _before_trading on a date no pending dividend is payable on and no
\* position has a split on leaves the whole ledger as it was, and a settlement
\* on a date that is the ex-date of no dividend of a symbol held leaves the
\* pending dividends as they were
C17_NothingPendingIsNoOp ==
  /\ (/\ ev.kind = "before_trading"
      /\ \A id \in DOMAIN pre.dividend_receivable :
           pre.dividend_receivable[id].payable_date # date
      /\ SplitToday = {})
     => Ledger = pre
  /\ (ev.kind = "settlement" /\ DividendToday = {})
     => dividend_receivable = pre.dividend_receivable

\* _before_trading ran with handle_split set, a dividend pending for a later
\* date and no split
C17_Witness ==
  /\ ev.kind = "before_trading"
  /\ ev.config.handle_split
  /\ SplitToday = {}
  /\ DOMAIN pre.positions # {}
  /\ \E id \in DOMAIN pre.dividend_receivable :
       pre.dividend_receivable[id].payable_date > date
  /\ Ledger = pre

\* what applying the trade does to cash: the proceeds of a sell or the price
\* of a buy, less the transaction cost
CashOfTrade(trade) ==
  (IF trade.side = BUY THEN 0 - trade.last_quantity * trade.last_price
   ELSE trade.last_quantity * trade.last_price) - trade.transaction_cost

\* what the trades among given that the dedup set does not hold do to cash
CashOfNewTrades(given) ==
  LET new == {e \in 1..Len(given) : given[e].exec_id \notin backward_trade_set}
  IN SumOver(new, [e \in new |-> CashOfTrade(given[e])])

\* the pending dividends payable on this date
PayableToday ==
  LET due == {id \in DOMAIN dividend_receivable :
                dividend_receivable[id].payable_date = date}
  IN SumOver(due, [id \in due |-> dividend_receivable[id].quantity
                                   * dividend_receivable[id].dividend_per_share])

\* the market value of the positions delisted with a quantity, at the prices
\* and under the configuration of the event e
DelistingCredit(e) ==
  LET closed == {id \in e.de_listed : positions[id].quantity # 0}
  IN IF e.config.cash_return_by_stock_delisted
     THEN SumOver(closed, [id \in closed |-> positions[id].quantity * e.price[id]])
     ELSE 0

\* what the event e, delivered in this state, adds to total_cash
CashFlow(e) ==
  CASE e.kind \in {"trade", "trade_again"} -> CashOfNewTrades(<<trades'[e.id]>>)
    [] e.kind \in {"fast_forward", "trade_by_fast_forward"} -> CashOfNewTrades(trades')
    [] e.kind = "before_trading" -> PayableToday
    [] e.kind = "settlement" -> DelistingCredit(e)
    [] OTHER -> 0

\* C18: total_cash starts as the initial cash and every event adds to it
\* exactly its cash flow: minus cost and price of an applied buy trade, minus
\* cost plus proceeds of an applied sell trade, plus the dividends paid at
\* _before_trading, plus the delisting credits of a settlement; order events,
\* _after_trading, splits and the dividend book closure add nothing
C18_CashLedgerIdentity ==
  /\ total_cash = InitialCash
  /\ [][total_cash' = total_cash + CashFlow(ev')]_vars

\* a dividend was paid into a ledger whose cash trades or a delisting had
\* changed before
C18_Witness ==
  /\ ev.kind = "before_trading"
  /\ total_cash > pre.total_cash
  /\ pre.total_cash # InitialCash

\* C19: fast_forward called again with the same orders and trades, with no
\* event in between, leaves total_cash, frozen_cash, the positions and the
\* dedup set as the first call left them, whatever frozen_cash was before
C19_FastForwardIdempotent ==
  [][(/\ ev.kind \in {"fast_forward", "trade_by_fast_forward"}
      /\ ev'.kind = "fast_forward")
     => Ledger' = Ledger]_vars

\* fast_forward ran with trades already applied and a reservation to compute,
\* and changed nothing
C19_Witness ==
  /\ ev.kind = "fast_forward"
  /\ trades # <<>>
  /\ backward_trade_set # {}
  /\ frozen_cash > 0
  /\ Ledger = pre

====
